---- MODULE Spec2Model ----
(***************************************************************************)
(* A model of the todo application of src/index.js: the intent (DOM events *)
(* to actions), the model (a scan of state transformations over the        *)
(* initial State) and the view (State to virtual DOM).                     *)
(*                                                                         *)
(* Immutable.List is modelled as a TLA+ sequence: the element with List    *)
(* index i is todos[i + 1].  A text is a sequence of one-character         *)
(* strings, so that String.trim can be computed.                           *)
(***************************************************************************)
EXTENDS Integers, Sequences, FiniteSets, TLC

\* ------------------------------------------------------------------ bounds
\* The number of actions that arrive in a behaviour.
MaxActions == 4

\* The identity payloads that arrive lie in -IdRange .. IdRange.
IdRange == 3

\* The number of DOM events that intent turns into actions in a behaviour.
MaxEvents == 5

\* ------------------------------------------------------- program constants
FILTER == [ALL |-> "all", COMPLETED |-> "completed", UNCOMPLETED |-> "uncompleted"]

FilterValues == {FILTER.ALL, FILTER.COMPLETED, FILTER.UNCOMPLETED}

\* The texts typed into the new-todo input that pass the non-empty check.
Texts == {<<"a">>, <<"b">>, <<"b", "u", "y", " ", "m", "i", "l", "k">>}

\* Everything a change event of the new-todo input may carry.
InputValues == Texts \cup {<< >>, <<" ">>, <<" ", "a">>}

\* The index payloads of the remove and completed action streams.
Ids == (0 - IdRange) .. IdRange

\* The payloads of the filter action stream: the enum and a foreign value.
FilterPayloads == FilterValues \cup {"bogus"}

\* ----------------------------------------------------------------- records
\* new Todo({text}): completed takes the Record's default.
Todo(text) == [text |-> text, completed |-> FALSE]

\* new State()
State == [todos |-> << >>, todoFilter |-> FILTER.ALL]

\* What a call of a transformation does: return a value or throw.
Return(v) == [threw |-> FALSE, value |-> v]

Throw(v) == [threw |-> TRUE, value |-> v]

\* ------------------------------------------------- Immutable.List methods
\* wrapIndex: a negative index counts from the end of the List.
wrapIndex(todos, index) == IF index < 0 THEN Len(todos) + index ELSE index

\* List.has(index)
ListHas(todos, index) ==
  wrapIndex(todos, index) >= 0 /\ wrapIndex(todos, index) < Len(todos)

\* List.push(value) in the place of unshift: the new todo goes to the end.
unshift_push(todos, todo) == Append(todos, todo)

\* List.unshift(value)
unshift(todos, todo) == <<todo>> \o todos

\* List.shift()
shift(todos) == SubSeq(todos, 2, Len(todos))

\* List.pop()
pop(todos) == SubSeq(todos, 1, Len(todos) - 1)

\* List.splice(index, 1): the begin index is resolved from the end when
\* negative and clamped to the List.
splice1(todos, index) ==
  LET size  == Len(todos)
      begin == IF index < 0
               THEN (IF size + index < 0 THEN 0 ELSE size + index)
               ELSE (IF index > size THEN size ELSE index)
  IN  SubSeq(todos, 1, begin) \o SubSeq(todos, begin + 2, size)

\* List.delete with the first and the last position taken for each other.
ListDelete_swapped(todos, index) ==
  IF ~ListHas(todos, index) THEN todos
  ELSE IF index = 0 THEN pop(todos)
  ELSE IF index = Len(todos) - 1 THEN shift(todos)
  ELSE splice1(todos, index)

\* List.delete(index)
ListDelete(todos, index) ==
  IF ~ListHas(todos, index) THEN todos
  ELSE IF index = 0 THEN shift(todos)
  ELSE IF index = Len(todos) - 1 THEN pop(todos)
  ELSE splice1(todos, index)

\* An updater that sets completed instead of negating it.
toggle_set(todo) == [todo EXCEPT !.completed = TRUE]

\* todo.update('completed', x => !x)
toggle(todo) == [todo EXCEPT !.completed = ~todo.completed]

\* A List.update that takes its index for a position counted from one.
ListUpdate_offByOne(todos, index) ==
  IF ~ListHas(todos, index + 1) THEN Throw(todos)
  ELSE Return([todos EXCEPT ![wrapIndex(todos, index + 1) + 1] = toggle(@)])

\* List.update(index, updater) with the updater of todoCompleted: the
\* updater receives undefined for an index the List does not have, and
\* calling .update on undefined throws a TypeError.
ListUpdate(todos, index) ==
  IF ~ListHas(todos, index) THEN Throw(todos)
  ELSE Return([todos EXCEPT ![wrapIndex(todos, index) + 1] = toggle(@)])

\* A filter whose predicate lost its negation: the completed todos stay.
RECURSIVE filterUncompleted_inverted(_)
filterUncompleted_inverted(todos) ==
  IF todos = << >> THEN << >>
  ELSE IF Head(todos).completed
       THEN <<Head(todos)>> \o filterUncompleted_inverted(Tail(todos))
       ELSE filterUncompleted_inverted(Tail(todos))

\* A removal that stops at the first completed todo it finds.
RECURSIVE filterUncompleted_first(_)
filterUncompleted_first(todos) ==
  IF todos = << >> THEN << >>
  ELSE IF Head(todos).completed
       THEN Tail(todos)
       ELSE <<Head(todos)>> \o filterUncompleted_first(Tail(todos))

\* List.filter(todo => !todo.get('completed')): walks the List in order and
\* keeps the values the predicate accepts.
RECURSIVE filterUncompleted(_)
filterUncompleted(todos) ==
  IF todos = << >> THEN << >>
  ELSE IF ~Head(todos).completed
       THEN <<Head(todos)>> \o filterUncompleted(Tail(todos))
       ELSE filterUncompleted(Tail(todos))

\* ------------------------------------------------- the state transformations
addTodo(state, text) ==
  Return([state EXCEPT !.todos = unshift(@, Todo(text))])

removeTodo(state, todoId) ==
  Return([state EXCEPT !.todos = ListDelete(@, todoId)])

todoCompleted(state, todoId) ==
  LET r == ListUpdate(state.todos, todoId)
  IN  IF r.threw THEN Throw(state)
      ELSE Return([state EXCEPT !.todos = r.value])

\* A changeFilter that stores only the values of the FILTER enum.
changeFilter_validated(state, todoFilter) ==
  IF todoFilter \in FilterValues
  THEN Return([state EXCEPT !.todoFilter = todoFilter])
  ELSE Return(state)

changeFilter(state, todoFilter) ==
  Return([state EXCEPT !.todoFilter = todoFilter])

\* A clearCompleted that builds a fresh State around the remaining todos,
\* so that todoFilter falls back to the Record's default.
clearCompleted_freshState(state) ==
  Return([todos |-> filterUncompleted(state.todos), todoFilter |-> FILTER.ALL])

clearCompleted(state) ==
  Return([state EXCEPT !.todos = filterUncompleted(@)])

\* -------------------------------------------------------------------- view
\* The predicate with a default case that accepts every todo.
todoFilter_defaultTrue(filterType, todo) ==
  CASE filterType = FILTER.ALL         -> TRUE
    [] filterType = FILTER.COMPLETED   -> todo.completed
    [] filterType = FILTER.UNCOMPLETED -> ~todo.completed
    [] OTHER                           -> TRUE

\* The predicate with the COMPLETED and UNCOMPLETED cases exchanged.
todoFilter_swapped(filterType, todo) ==
  CASE filterType = FILTER.ALL         -> TRUE
    [] filterType = FILTER.COMPLETED   -> ~todo.completed
    [] filterType = FILTER.UNCOMPLETED -> todo.completed
    [] OTHER                           -> FALSE

\* todoFilter(filterType)(todo)
todoFilter(filterType, todo) ==
  CASE filterType = FILTER.ALL         -> TRUE
    [] filterType = FILTER.COMPLETED   -> todo.completed
    [] filterType = FILTER.UNCOMPLETED -> ~todo.completed
    [] OTHER                           -> FALSE

\* todos.filter(todoFilter(activeFilter)): a new List of the accepted todos.
RECURSIVE filterTodos(_, _)
filterTodos(todos, activeFilter) ==
  IF todos = << >> THEN << >>
  ELSE IF todoFilter(activeFilter, Head(todos))
       THEN <<Head(todos)>> \o filterTodos(Tail(todos), activeFilter)
       ELSE filterTodos(Tail(todos), activeFilter)

\* renderTodo(idx, todo): the text, the checkbox and the remove span.
renderTodo(idx, todo) ==
  [text      |-> todo.text,
   checked   |-> todo.completed,
   completedId |-> idx,
   removeId  |-> idx]

\* A renderTodos that numbers the rows from one.
renderTodos_fromOne(todos, activeFilter) ==
  LET shown == filterTodos(todos, activeFilter)
  IN  [k \in 1 .. Len(shown) |-> renderTodo(k, shown[k])]

\* renderTodos: entrySeq of the filtered List pairs each kept todo with its
\* index in the filtered List.
renderTodos(todos, activeFilter) ==
  LET shown == filterTodos(todos, activeFilter)
  IN  [k \in 1 .. Len(shown) |-> renderTodo(k - 1, shown[k])]

\* A filterSelector that marks the label of the default filter.
filterSelector_default(activeFilter, targetFilter) ==
  [id |-> targetFilter, active |-> (targetFilter = FILTER.ALL)]

\* A filterSelector that gives the class name as the id of the label.
filterSelector_classId(activeFilter, targetFilter) ==
  [id |-> "filter", active |-> (activeFilter = targetFilter)]

\* filterSelector: the id and the classes of a filter label.
filterSelector(activeFilter, targetFilter) ==
  [id |-> targetFilter, active |-> (activeFilter = targetFilter)]

renderFilters(activeFilter) ==
  << filterSelector(activeFilter, FILTER.ALL),
     filterSelector(activeFilter, FILTER.COMPLETED),
     filterSelector(activeFilter, FILTER.UNCOMPLETED) >>

view(state) ==
  [filters        |-> renderFilters(state.todoFilter),
   newTodo        |-> TRUE,
   clearCompleted |-> TRUE,
   todos          |-> renderTodos(state.todos, state.todoFilter)]

\* ------------------------------------------------------------------ intent
\* A trim that strips nothing: the emptiness check sees the raw value.
trim_none(text) == text

\* String.trim on a text.
RECURSIVE trimLeft(_)
trimLeft(text) ==
  IF text # << >> /\ Head(text) = " " THEN trimLeft(Tail(text)) ELSE text

RECURSIVE trimRight(_)
trimRight(text) ==
  IF text # << >> /\ text[Len(text)] = " "
  THEN trimRight(SubSeq(text, 1, Len(text) - 1)) ELSE text

trim(text) == trimRight(trimLeft(text))

\* The actions of the five streams.
AddTodoAction(text)     == [kind |-> "addTodo", text |-> text, id |-> 0, filter |-> ""]

RemoveTodoAction(id)    == [kind |-> "removeTodo", text |-> << >>, id |-> id, filter |-> ""]

TodoCompletedAction(id) == [kind |-> "todoCompleted", text |-> << >>, id |-> id, filter |-> ""]

ChangeFilterAction(f)   == [kind |-> "changeFilter", text |-> << >>, id |-> 0, filter |-> f]

ClearCompletedAction    == [kind |-> "clearCompleted", text |-> << >>, id |-> 0, filter |-> ""]

\* The transformation an action is mapped to, applied to a state.
transform(action, s) ==
  CASE action.kind = "addTodo"        -> addTodo(s, action.text)
    [] action.kind = "removeTodo"     -> removeTodo(s, action.id)
    [] action.kind = "todoCompleted"  -> todoCompleted(s, action.id)
    [] action.kind = "changeFilter"   -> changeFilter(s, action.filter)
    [] action.kind = "clearCompleted" -> clearCompleted(s)

\* ------------------------------------------------------------------- state
VARIABLES
  state,      \* the accumulator of the scan
  snapshots,  \* the states the model has emitted, oldest first
  arrived,    \* the actions that have arrived on the merged stream
  failedAt,   \* 0, or the number of the action whose transformation threw
  dom         \* the view of the last emitted state

vars == <<state, snapshots, arrived, failedAt, dom>>

Init ==
  /\ state = State
  /\ snapshots = <<State>>
  /\ arrived = << >>
  /\ failedAt = 0
  /\ dom = view(State)

\* More actions may arrive.
CanArrive == Len(arrived) < MaxActions

\* A scan over one mutable state object: every snapshot already emitted is
\* the same object and shows the latest change.
Step_inPlace(action) ==
  /\ arrived' = Append(arrived, action)
  /\ IF failedAt # 0
     THEN UNCHANGED <<state, snapshots, failedAt, dom>>
     ELSE LET r == transform(action, state)
          IN  IF r.threw
              THEN /\ failedAt' = Len(arrived) + 1
                   /\ UNCHANGED <<state, snapshots, dom>>
              ELSE /\ state' = r.value
                   /\ snapshots' = Append([k \in DOMAIN snapshots |-> r.value],
                                          r.value)
                   /\ dom' = view(r.value)
                   /\ UNCHANGED failedAt

\* One action arrives on the merged stream and the scan applies its
\* transformation.  A transformation that throws ends the stream: nothing
\* is emitted for it or for any later action.
Step(action) ==
  /\ arrived' = Append(arrived, action)
  /\ IF failedAt # 0
     THEN UNCHANGED <<state, snapshots, failedAt, dom>>
     ELSE LET r == transform(action, state)
          IN  IF r.threw
              THEN /\ failedAt' = Len(arrived) + 1
                   /\ UNCHANGED <<state, snapshots, dom>>
              ELSE /\ state' = r.value
                   /\ snapshots' = Append(snapshots, r.value)
                   /\ dom' = view(r.value)
                   /\ UNCHANGED failedAt

\* The action streams handed to model(actions), with any payload.
AddTodo ==
  /\ CanArrive
  /\ \E text \in Texts : Step(AddTodoAction(text))

RemoveTodo ==
  /\ CanArrive
  /\ \E id \in Ids : Step(RemoveTodoAction(id))

TodoCompleted ==
  /\ CanArrive
  /\ \E id \in Ids : Step(TodoCompletedAction(id))

ChangeFilter ==
  /\ CanArrive
  /\ \E f \in FilterPayloads : Step(ChangeFilterAction(f))

ClearCompleted ==
  /\ CanArrive
  /\ Step(ClearCompletedAction)

Next ==
  \/ AddTodo
  \/ RemoveTodo
  \/ TodoCompleted
  \/ ChangeFilter
  \/ ClearCompleted

Spec == Init /\ [][Next]_vars

\* More DOM events may be delivered.
CanClick == Len(arrived) < MaxEvents

\* The action streams that intent derives from events on the rendered DOM.
NewTodoChange ==
  /\ CanClick
  /\ dom.newTodo
  /\ \E value \in InputValues :
       /\ trim(value) # << >>
       /\ Step(AddTodoAction(value))

RemoveTodoClick ==
  /\ CanClick
  /\ \E k \in DOMAIN dom.todos : Step(RemoveTodoAction(dom.todos[k].removeId))

TodoCompletedClick ==
  /\ CanClick
  /\ \E k \in DOMAIN dom.todos : Step(TodoCompletedAction(dom.todos[k].completedId))

FilterClick ==
  /\ CanClick
  /\ \E k \in DOMAIN dom.filters : Step(ChangeFilterAction(dom.filters[k].id))

ClearCompletedClick ==
  /\ CanClick
  /\ dom.clearCompleted
  /\ Step(ClearCompletedAction)

NextUI ==
  \/ NewTodoChange
  \/ RemoveTodoClick
  \/ TodoCompletedClick
  \/ FilterClick
  \/ ClearCompletedClick

SpecUI == Init /\ [][NextUI]_vars

\* ------------------------------------------------------- history operators
\* The number of actions the scan has processed without throwing.
Emitted == Len(snapshots) - 1

\* The stream is still running.
Running == failedAt = 0

\* The last action that arrived while the stream was running.
HasLast == arrived # << >> /\ (Running \/ failedAt = Len(arrived))

Last == arrived[Len(arrived)]

\* The state the last action's transformation was applied to.
Prev == IF Running THEN snapshots[Len(snapshots) - 1] ELSE state

\* List index i of todos is a position of the List.
InBounds(todos, i) == 0 <= i /\ i < Len(todos)

TypeOK ==
  /\ state.todoFilter \in FilterPayloads
  /\ Len(arrived) <= MaxActions \/ Len(arrived) <= MaxEvents
  /\ failedAt \in 0 .. Len(arrived)
  /\ state = snapshots[Len(snapshots)]
  /\ dom = view(state)

\* ------------------------------------------------------------------ claims
\* The List indices, in increasing order, of the todos the filter accepts.
VisibleIndices(todos, activeFilter) ==
  SelectSeq([i \in 1 .. Len(todos) |-> i - 1],
            LAMBDA i : todoFilter(activeFilter, todos[i + 1]))

\* C1: in every reachable state and under every filter, the data-todo-id on
\* the checkbox and on the remove span of each rendered row is the index of
\* that row's todo in the unfiltered state.todos.
C1_TokenIsUnfilteredIndex ==
  LET visible == VisibleIndices(state.todos, state.todoFilter)
  IN  /\ Len(dom.todos) = Len(visible)
      /\ \A k \in DOMAIN dom.todos :
           /\ dom.todos[k].completedId = visible[k]
           /\ dom.todos[k].removeId = visible[k]

\* C2: a todoCompleted action whose id is not a position of todos (id < 0
\* or id >= size) does not throw and leaves the state as it was, so the
\* stream keeps running.
C2_ToggleOutOfBoundsIsNoOp ==
  (HasLast /\ Last.kind = "todoCompleted" /\ ~InBounds(Prev.todos, Last.id))
    => (Running /\ state = Prev)

\* C3: a removeTodo action whose id is not a position of todos (id < 0 or
\* id >= size) does not throw and leaves todos and the filter unchanged;
\* the same removeTodo twice in a row never fails and its second
\* application is a no-op when the id is then past the end.
C3_RemoveOutOfBoundsIsNoOp ==
  /\ (HasLast /\ Last.kind = "removeTodo")
       => Running
  /\ (HasLast /\ Last.kind = "removeTodo" /\ ~InBounds(Prev.todos, Last.id))
       => (Running /\ state.todos = Prev.todos
                   /\ state.todoFilter = Prev.todoFilter)

\* C4: the model emits the initial State and then exactly one snapshot per
\* arrived action, the k-th being the k-th action's transformation applied
\* to the snapshot before it, in arrival order.
C4_OneSnapshotPerAction ==
  /\ snapshots[1] = State
  /\ Len(snapshots) = Len(arrived) + 1
  /\ \A k \in 1 .. Len(arrived) :
       /\ ~transform(arrived[k], snapshots[k]).threw
       /\ snapshots[k + 1] = transform(arrived[k], snapshots[k]).value

\* Every action that has arrived is an addTodo.
OnlyAdds == \A k \in DOMAIN arrived : arrived[k].kind = "addTodo"

\* C5: addTodo(text) puts a todo with that text and completed = false at
\* index 0 and moves every previous todo one position up, unchanged; after
\* only addTodo actions the todos are in reverse order of addition.
C5_AddTodoPrepends ==
  /\ (HasLast /\ Running /\ Last.kind = "addTodo")
       => /\ Len(state.todos) = Len(Prev.todos) + 1
          /\ state.todos[1].text = Last.text
          /\ state.todos[1].completed = FALSE
          /\ \A i \in DOMAIN Prev.todos : state.todos[i + 1] = Prev.todos[i]
  /\ (Running /\ OnlyAdds)
       => /\ Len(state.todos) = Len(arrived)
          /\ \A i \in DOMAIN state.todos :
               /\ state.todos[i].text = arrived[Len(arrived) - i + 1].text
               /\ state.todos[i].completed = FALSE

C5_Witness ==
  /\ Running
  /\ Len(arrived) = 3
  /\ OnlyAdds
  /\ arrived[1].text # arrived[3].text
  /\ state.todos[1].text = arrived[3].text

\* C6: removeTodo(id) with 0 <= id < size removes exactly the todo at
\* position id: the size drops by one and the other todos keep their
\* values and order; addTodo a, addTodo b, removeTodo 1 leaves only b.
C6_RemoveInBounds ==
  /\ (HasLast /\ Last.kind = "removeTodo" /\ InBounds(Prev.todos, Last.id))
       => /\ Running
          /\ Len(state.todos) = Len(Prev.todos) - 1
          /\ \A i \in DOMAIN state.todos :
               state.todos[i] = IF i <= Last.id THEN Prev.todos[i]
                                ELSE Prev.todos[i + 1]
  /\ (arrived = << AddTodoAction(<<"a">>), AddTodoAction(<<"b">>),
                   RemoveTodoAction(1) >>)
       => state.todos = << [text |-> <<"b">>, completed |-> FALSE] >>

C6_Witness ==
  /\ HasLast /\ Running
  /\ Last.kind = "removeTodo"
  /\ Last.id = 1
  /\ Len(Prev.todos) = 3
  /\ Prev.todos[1].text # Prev.todos[2].text
  /\ Len(state.todos) = 2

\* C7: todoCompleted(id) with 0 <= id < size negates completed of the todo
\* at position id and changes nothing else; applied twice in succession it
\* gives back the original state.
C7_ToggleInBounds ==
  /\ (HasLast /\ Last.kind = "todoCompleted" /\ InBounds(Prev.todos, Last.id))
       => /\ Running
          /\ state.todoFilter = Prev.todoFilter
          /\ Len(state.todos) = Len(Prev.todos)
          /\ \A i \in DOMAIN Prev.todos :
               IF i = Last.id + 1
               THEN /\ state.todos[i].completed = ~Prev.todos[i].completed
                    /\ state.todos[i].text = Prev.todos[i].text
               ELSE state.todos[i] = Prev.todos[i]
  /\ (/\ Running
      /\ Len(arrived) >= 2
      /\ Last.kind = "todoCompleted"
      /\ arrived[Len(arrived) - 1] = Last
      /\ InBounds(Prev.todos, Last.id))
       => state = snapshots[Len(snapshots) - 2]

C7_Witness ==
  /\ Running
  /\ Len(arrived) = 4
  /\ Last.kind = "todoCompleted"
  /\ Last.id = 1
  /\ arrived[3] = Last
  /\ Len(state.todos) = 2
  /\ state = snapshots[3]
  /\ snapshots[4] # state

\* C8: clearCompleted leaves the todos whose completed is false, in their
\* original order, so no completed todo is in the state right after it.
C8_ClearCompleted ==
  (HasLast /\ Last.kind = "clearCompleted")
    => /\ Running
       /\ state.todos = SelectSeq(Prev.todos, LAMBDA t : t.completed = FALSE)
       /\ \A i \in DOMAIN state.todos : ~state.todos[i].completed

C8_Witness ==
  /\ HasLast /\ Running
  /\ Last.kind = "clearCompleted"
  /\ Len(Prev.todos) = 2
  /\ Prev.todos[1].text # Prev.todos[2].text
  /\ ~Prev.todos[1].completed
  /\ Prev.todos[2].completed
  /\ state.todos = <<Prev.todos[1]>>

\* C9: clearCompleted is idempotent: applied to its own result it returns
\* that result.
C9_ClearCompletedIdempotent ==
  /\ clearCompleted(clearCompleted(state).value).value
       = clearCompleted(state).value
  /\ (/\ Running
      /\ Len(arrived) >= 2
      /\ Last.kind = "clearCompleted"
      /\ arrived[Len(arrived) - 1].kind = "clearCompleted")
       => state = Prev

C9_Witness ==
  /\ Running
  /\ Len(arrived) = 4
  /\ arrived[3].kind = "clearCompleted"
  /\ arrived[4].kind = "clearCompleted"
  /\ Len(snapshots[3].todos) > Len(snapshots[4].todos)
  /\ state = snapshots[4]

\* The predicate of a filter, as the claim words it.
Satisfies(f, todo) ==
  \/ f = "all"
  \/ f = "completed" /\ todo.completed = TRUE
  \/ f = "uncompleted" /\ todo.completed = FALSE

\* C10: under each of the three filters the rendered rows are exactly the
\* todos that satisfy the filter's predicate, in the order of state.todos,
\* none twice and none left out.
C10_RenderedAreFiltered ==
  (state.todoFilter \in {"all", "completed", "uncompleted"})
    => LET expected == SelectSeq(state.todos,
                                 LAMBDA t : Satisfies(state.todoFilter, t))
       IN  /\ Len(dom.todos) = Len(expected)
           /\ \A k \in DOMAIN dom.todos :
                /\ dom.todos[k].text = expected[k].text
                /\ dom.todos[k].checked = expected[k].completed

C10_Witness ==
  /\ state.todoFilter = "completed"
  /\ Len(state.todos) = 2
  /\ state.todos[1].text # state.todos[2].text
  /\ ~state.todos[1].completed
  /\ state.todos[2].completed
  /\ Len(dom.todos) = 1
  /\ dom.todos[1].text = state.todos[2].text

\* C11: changeFilter(filter) stores the given value as the filter whatever
\* it is, a value outside the FILTER enum included, never throws and leaves
\* todos unchanged.
C11_ChangeFilterUnconditional ==
  (HasLast /\ Last.kind = "changeFilter")
    => /\ Running
       /\ state.todoFilter = Last.filter
       /\ state.todos = Prev.todos

C11_Witness ==
  /\ HasLast /\ Running
  /\ Last.kind = "changeFilter"
  /\ Last.filter = "bogus"
  /\ Prev.todoFilter = "completed"
  /\ Prev.todos # << >>
  /\ state.todoFilter = "bogus"

\* The end-to-end scenario of the buy-milk todo.
BuyMilk == <<"b", "u", "y", " ", "m", "i", "l", "k">>

Scenario ==
  << AddTodoAction(BuyMilk), TodoCompletedAction(0),
     ChangeFilterAction("uncompleted"), ClearCompletedAction >>

\* The actions arrived so far are the first ones of the scenario.
InScenario ==
  /\ Len(arrived) <= Len(Scenario)
  /\ arrived = SubSeq(Scenario, 1, Len(arrived))

\* C12: from the initial state, AddTodo("buy milk"), ToggleCompleted(0),
\* ChangeFilter(UNCOMPLETED), ClearCompleted give in turn todos =
\* [(buy milk, false)], todos = [(buy milk, true)], an empty rendered list
\* over unchanged todos, and todos = [].
C12_BuyMilkScenario ==
  InScenario
    => /\ Running
       /\ Len(arrived) = 1
            => state.todos = << [text |-> BuyMilk, completed |-> FALSE] >>
       /\ Len(arrived) = 2
            => state.todos = << [text |-> BuyMilk, completed |-> TRUE] >>
       /\ Len(arrived) = 3
            => /\ dom.todos = << >>
               /\ state.todos = << [text |-> BuyMilk, completed |-> TRUE] >>
       /\ Len(arrived) = 4
            => state.todos = << >>

C12_Witness ==
  /\ arrived = Scenario
  /\ Len(snapshots) = 5
  /\ snapshots[4].todos # << >>
  /\ state.todos = << >>

\* A text that is empty or made of spaces only.
IsBlank(text) == \A i \in DOMAIN text : text[i] = " "

\* A change event of the new-todo input with this value yields an addTodo
\* action carrying the value.
EmitsAddTodo(value) ==
  ENABLED (NewTodoChange /\ arrived' = Append(arrived, AddTodoAction(value)))

\* C13: a change of the new-todo input yields an addTodo action exactly
\* when the trimmed value is non-empty, the todo stores the value as typed,
\* and so no todo reachable through the UI has an empty or all-space text.
C13_AddTodoOnlyNonBlank ==
  /\ CanClick => \A value \in InputValues :
                   EmitsAddTodo(value) <=> ~IsBlank(value)
  /\ \A k \in DOMAIN arrived :
       arrived[k].kind = "addTodo" => ~IsBlank(arrived[k].text)
  /\ (HasLast /\ Last.kind = "addTodo")
       => /\ Running
          /\ state.todos[1].text = Last.text
  /\ \A i \in DOMAIN state.todos : ~IsBlank(state.todos[i].text)

C13_Witness ==
  /\ HasLast /\ Running
  /\ Last.kind = "addTodo"
  /\ Last.text = <<" ", "a">>
  /\ Len(state.todos) = 2
  /\ state.todos[1].text = <<" ", "a">>
  /\ state.todos[2].text = <<"a">>

\* C14: the view has exactly the three filter labels ALL, COMPLETED and
\* UNCOMPLETED, a label is active exactly when its value is the state's
\* filter, and so exactly one is active when the filter is one of the three.
C14_FilterLabels ==
  /\ Len(dom.filters) = 3
  /\ dom.filters[1].id = "all"
  /\ dom.filters[2].id = "completed"
  /\ dom.filters[3].id = "uncompleted"
  /\ \A k \in DOMAIN dom.filters :
       dom.filters[k].active <=> (dom.filters[k].id = state.todoFilter)
  /\ (state.todoFilter \in {"all", "completed", "uncompleted"})
       => Cardinality({k \in DOMAIN dom.filters : dom.filters[k].active}) = 1

C14_Witness ==
  /\ state.todoFilter = "uncompleted"
  /\ state.todos # << >>
  /\ dom.filters[3].active
  /\ ~dom.filters[1].active
  /\ ~dom.filters[2].active

\* C15: when the actions come only from events on the rendered view, every
\* changeFilter payload is one of the three FILTER values, and so is the
\* filter of every state.
C15_FilterFromClicksInEnum ==
  /\ \A k \in DOMAIN arrived :
       arrived[k].kind = "changeFilter"
         => arrived[k].filter \in {"all", "completed", "uncompleted"}
  /\ \A k \in DOMAIN snapshots :
       snapshots[k].todoFilter \in {"all", "completed", "uncompleted"}

C15_Witness ==
  /\ Len(arrived) >= 3
  /\ arrived[1].kind = "changeFilter"
  /\ arrived[1].filter = "completed"
  /\ arrived[2].kind = "changeFilter"
  /\ arrived[2].filter = "uncompleted"
  /\ arrived[3].kind = "changeFilter"
  /\ arrived[3].filter = "all"
  /\ snapshots[4].todoFilter = "all"

RemoveAt(todos, i) == SubSeq(todos, 1, i) \o SubSeq(todos, i + 2, Len(todos))

\* The todos with the completed flag of the one at List index i negated.
ToggleAt(todos, i) == [todos EXCEPT ![i + 1].completed = ~@]

\* C17: under every filter, a click on the remove span of a row removes
\* exactly the todo that row shows, and a click on its checkbox toggles
\* exactly that todo; no other todo is removed or toggled.
C17_ClickActsOnShownTodo ==
  LET rows    == view(Prev).todos
      visible == VisibleIndices(Prev.todos, Prev.todoFilter)
  IN  /\ (HasLast /\ Last.kind = "removeTodo")
           => \A k \in DOMAIN rows :
                rows[k].removeId = Last.id
                  => /\ k \in DOMAIN visible
                     /\ state.todos = RemoveAt(Prev.todos, visible[k])
      /\ (HasLast /\ Last.kind = "todoCompleted")
           => \A k \in DOMAIN rows :
                rows[k].completedId = Last.id
                  => /\ k \in DOMAIN visible
                     /\ state.todos = ToggleAt(Prev.todos, visible[k])

\* C18: every token of the rendered view is an integer of
\* 0 .. size - 1 and no two rows carry the same token, so a removeTodo or
\* todoCompleted action from a click on the current view addresses an
\* existing position and no transformation meets an index out of bounds.
C18_TokensInBounds ==
  /\ \A k \in DOMAIN dom.todos :
       /\ dom.todos[k].completedId \in 0 .. (Len(state.todos) - 1)
       /\ dom.todos[k].removeId \in 0 .. (Len(state.todos) - 1)
  /\ \A j, k \in DOMAIN dom.todos :
       j # k => /\ dom.todos[j].completedId # dom.todos[k].completedId
                /\ dom.todos[j].removeId # dom.todos[k].removeId
  /\ Running
  /\ (HasLast /\ Last.kind \in {"removeTodo", "todoCompleted"})
       => InBounds(Prev.todos, Last.id)

C18_Witness ==
  /\ HasLast /\ Running
  /\ Last.kind = "todoCompleted"
  /\ Last.id = 1
  /\ Prev.todoFilter = "uncompleted"
  /\ Len(Prev.todos) = 3
  /\ Len(dom.todos) = 2
  /\ dom.todos[2].removeId = 1

\* C19: addTodo, removeTodo, todoCompleted and clearCompleted leave the
\* filter unchanged, so it changes only through changeFilter; the number of
\* todos grows only through addTodo, by exactly one, and shrinks only
\* through removeTodo and clearCompleted.
C19_Frames ==
  HasLast
    => /\ Last.kind # "changeFilter" => state.todoFilter = Prev.todoFilter
       /\ Last.kind = "addTodo" /\ Running
            => Len(state.todos) = Len(Prev.todos) + 1
       /\ Len(state.todos) > Len(Prev.todos)
            => /\ Last.kind = "addTodo"
               /\ Len(state.todos) = Len(Prev.todos) + 1
       /\ Len(state.todos) < Len(Prev.todos)
            => Last.kind \in {"removeTodo", "clearCompleted"}

C19_Witness ==
  /\ HasLast /\ Running
  /\ Last.kind = "clearCompleted"
  /\ Prev.todoFilter = "completed"
  /\ state.todoFilter = "completed"
  /\ Len(state.todos) < Len(Prev.todos)

\* C20: under a filter that is none of the three FILTER values the view
\* shows no todo row whatever todos holds, marks no label active and still
\* has the new-todo input and the clear-completed button; a later
\* changeFilter to one of the three values shows the matching todos again
\* and leaves todos unchanged.
C20_ForeignFilter ==
  /\ (state.todoFilter \notin {"all", "completed", "uncompleted"})
       => /\ dom.todos = << >>
          /\ Len(dom.filters) = 3
          /\ \A k \in DOMAIN dom.filters : ~dom.filters[k].active
          /\ dom.newTodo
          /\ dom.clearCompleted
  /\ (/\ HasLast /\ Last.kind = "changeFilter"
      /\ Prev.todoFilter \notin {"all", "completed", "uncompleted"}
      /\ Last.filter \in {"all", "completed", "uncompleted"})
       => LET expected == SelectSeq(Prev.todos,
                                    LAMBDA t : Satisfies(Last.filter, t))
          IN  /\ Running
              /\ state.todos = Prev.todos
              /\ Len(dom.todos) = Len(expected)
              /\ \A k \in DOMAIN dom.todos :
                   /\ dom.todos[k].text = expected[k].text
                   /\ dom.todos[k].checked = expected[k].completed

C20_Witness ==
  /\ HasLast /\ Running
  /\ Last.kind = "changeFilter"
  /\ Last.filter = "completed"
  /\ Prev.todoFilter = "bogus"
  /\ Len(Prev.todos) = 1
  /\ Prev.todos[1].completed
  /\ view(Prev).todos = << >>
  /\ Len(dom.todos) = 1
====
